---- MODULE Spec2Model ----
(***************************************************************************)
(* Model of hwy/perf_counters.{h,cc}: the counter catalog                  *)
(* (FindCounterConfig), the caller-owned PerfCounters record and the       *)
(* PMU::Impl counter-group manager (constructor, Start, Stop, destructor), *)
(* together with the non-Linux stub of PMU and the part of the kernel's    *)
(* perf_event interface the code talks to (open, ioctl, read, close).      *)
(*                                                                         *)
(* Values of type double and float are binary floating-point numbers and   *)
(* the arithmetic on them rounds as IEEE 754 does.                         *)
(***************************************************************************)
EXTENDS Integers, Sequences, FiniteSets, TLC

(***************************************************************************)
(* Bounds of the model (environment nondeterminism only).                  *)
(***************************************************************************)
\* Spec: scheduler ticks of measured workload over the life of one instance.
MaxTicks == 1
\* The PerfCounters handed to Stop is filled with 0 or with MaxPrior.
MaxPrior == 1
\* SpecSamples, SpecReads: events of one instance whose reads follow an
\* arbitrary script of ReadScripts (SpecReads also has any number of events
\* whose reads fail).
MaxFaults == 1
\* Events the workload produces in one tick.
MaxEvents == 1
\* SpecSamples, SpecReads: the events of an instance have counted up to
\* MaxSampleValue and have been enabled for up to MaxSampleTime.
MaxSampleValue == 7
MaxSampleTime == 5

(***************************************************************************)
(* Binary floating point.                                                  *)
(*                                                                         *)
(* A natural number below 2^54 is a pair <<hi, lo>> of digits in base W,   *)
(* standing for hi * W + lo.  A value of type double or float (none is     *)
(* negative, infinite or NaN here) is <<m, e>>, standing for m * 2^e, with *)
(* m such a natural, odd, of at most 53 (float: 24) bits; zero is          *)
(* <<<<0, 0>>, 0>>.  Two values are the same number iff they are equal.    *)
(* Exponent range is not modelled.                                         *)
(***************************************************************************)
W == 134217728

BZero == <<0, 0>>

\* n, 0 <= n < 2^31, as a pair of digits
BNat(n) == <<n \div W, n % W>>

BLess(a, b) == a[1] < b[1] \/ (a[1] = b[1] /\ a[2] < b[2])

\* a - b, a >= b
BSub(a, b) ==
  IF a[2] >= b[2] THEN <<a[1] - b[1], a[2] - b[2]>>
  ELSE <<a[1] - b[1] - 1, (a[2] + W) - b[2]>>

BTwice(a) == <<2 * a[1] + (2 * a[2]) \div W, (2 * a[2]) % W>>

BOdd(a) == a[2] % 2 = 1

BSucc(a) == IF a[2] + 1 = W THEN <<a[1] + 1, 0>> ELSE <<a[1], a[2] + 1>>

\* a * 2^k, for a below 2^(54-k)
BShl(a, k) ==
  IF k >= 27 THEN <<a[2] * 2^(k - 27), 0>>
  ELSE <<a[1] * 2^k + a[2] \div 2^(27 - k), (a[2] % 2^(27 - k)) * 2^k>>

\* a \div 2^k
BShr(a, k) ==
  IF k >= 27 THEN <<0, a[1] \div 2^(k - 27)>>
  ELSE <<a[1] \div 2^k, (a[1] % 2^k) * 2^(27 - k) + a[2] \div 2^k>>

\* Number of bits of n, 0 <= n < 2^31
IntBits(n) == CHOOSE k \in 0 .. 31 : n < 2^k /\ (k = 0 \/ n >= 2^(k - 1))

Bits(a) == IF a[1] > 0 THEN 27 + IntBits(a[1]) ELSE IntBits(a[2])

\* Number of trailing zero bits of n, 0 < n < W
IntZeros(n) ==
  IF n % 2 = 1 THEN 0 ELSE CHOOSE k \in 1 .. 26 : n % 2^k = 0 /\ n % 2^(k + 1) # 0

Zeros(a) == IF a[2] > 0 THEN IntZeros(a[2]) ELSE 27 + IntZeros(a[1])

\* m * 2^e with m made odd
Norm(m, e) ==
  IF m = BZero THEN <<BZero, 0>> ELSE <<BShr(m, Zeros(m)), e + Zeros(m)>>

Zero == <<BZero, 0>>

\* static_cast<double>(n) for an integer n, 0 <= n < 2^31 (exact)
FromInt(n) == Norm(BNat(n), 0)

One == FromInt(1)

\* Round to nearest, ties to even: q + 1 if the part dropped below q rounds
\* it up; half: that part is at least half a unit of q; rest: it is not
\* exactly half a unit.
RoundUp(q, half, rest) == IF half /\ (rest \/ BOdd(q)) THEN BSucc(q) ELSE q

\* x rounded to p significant bits
RoundBits(x, p) ==
  LET k == Bits(x[1]) - p
      q == BShr(x[1], k)
      half == BOdd(BShr(x[1], k - 1))
      rest == BShl(BShr(x[1], k - 1), k - 1) # x[1]
  IN IF k <= 0 THEN x ELSE Norm(RoundUp(q, half, rest), x[2] + k)

\* One step of long division by d: q the quotient bits so far, r the
\* remainder, e the exponent of the last bit of q.
DivStep(s, d) ==
  LET r2 == BTwice(s.r)
      bit == ~BLess(r2, d)
  IN [q |-> IF bit THEN BSucc(BTwice(s.q)) ELSE BTwice(s.q),
      r |-> IF bit THEN BSub(r2, d) ELSE r2, e |-> s.e - 1]

\* n steps, or fewer when the remainder becomes zero
RECURSIVE DivSteps(_, _, _)
DivSteps(s, d, n) ==
  IF s.r = BZero \/ n = 0 THEN s
  ELSE IF n = 1 THEN DivStep(s, d)
  ELSE DivSteps(DivSteps(s, d, n \div 2), d, n - n \div 2)

\* (n / d) * 2^e to p significant bits: n and d are shifted so that
\* d <= n < 2d, p quotient bits are produced and the remainder rounds them.
DivAlign(n, d, e, p) ==
  LET k == Bits(d) - Bits(n)
      n1 == IF k > 0 THEN BShl(n, k) ELSE n
      d1 == IF k < 0 THEN BShl(d, -k) ELSE d
      n2 == IF BLess(n1, d1) THEN BTwice(n1) ELSE n1
      e2 == IF BLess(n1, d1) THEN e - k - 1 ELSE e - k
      s == DivSteps([q |-> <<0, 1>>, r |-> BSub(n2, d1), e |-> e2], d1, p - 1)
      r2 == BTwice(s.r)
  IN Norm(RoundUp(s.q, ~BLess(r2, d1), r2 # d1), s.e)

\* x / y (y # 0) rounded to p significant bits; x / x is 1 and x / 2^k is
\* x with another exponent.
FDivP(x, y, p) ==
  IF x[1] = BZero THEN Zero
  ELSE IF x = y THEN One
  ELSE IF y[1] = <<0, 1>> THEN RoundBits(<<x[1], x[2] - y[2]>>, p)
  ELSE DivAlign(x[1], y[1], x[2] - y[2], p)

\* The quotient of two doubles as IEEE 754 gives it
FDiv(x, y) == FDivP(x, y, 53)

\* x < y
FLess(x, y) ==
  IF y[1] = BZero THEN FALSE
  ELSE IF x[1] = BZero THEN TRUE
  ELSE LET tx == Bits(x[1]) + x[2]
           ty == Bits(y[1]) + y[2]
       IN IF tx # ty THEN tx < ty
          ELSE IF x[2] >= y[2] THEN BLess(BShl(x[1], x[2] - y[2]), y[1])
          ELSE BLess(x[1], BShl(y[1], y[2] - x[2]))

\* static_cast<float>(x) of a double x
CastFloat(x) == RoundBits(x, 24)

\* static_cast<double>(x) / static_cast<double>(y) for integers x, y (y > 0)
DivInt(x, y) == FDiv(FromInt(x), FromInt(y))

\* DivRat with the operands exchanged
DivRatSwapped(v, f) == FDiv(f, FromInt(v))

\* static_cast<double>(v) / fraction, fraction > 0
DivRat(v, f) == FDiv(FromInt(v), f)

\* HWY_MIN with the comparison turned around
HWY_MIN_Greater(a, b) == IF FLess(b, a) THEN a ELSE b

\* #define HWY_MIN(a, b) ((a) < (b) ? (a) : (b))
HWY_MIN(a, b) == IF FLess(a, b) THEN a ELSE b

(***************************************************************************)
(* linux/perf_event.h values used by the catalog.                          *)
(***************************************************************************)
PERF_TYPE_HARDWARE == 0
PERF_TYPE_SOFTWARE == 1
PERF_TYPE_HW_CACHE == 3
PERF_COUNT_HW_INSTRUCTIONS == 1
PERF_COUNT_HW_BRANCH_INSTRUCTIONS == 4
PERF_COUNT_HW_BRANCH_MISSES == 5
PERF_COUNT_HW_STALLED_CYCLES_FRONTEND == 7
PERF_COUNT_HW_STALLED_CYCLES_BACKEND == 8
PERF_COUNT_HW_REF_CPU_CYCLES == 9
PERF_COUNT_HW_CACHE_LL == 2
PERF_COUNT_HW_CACHE_OP_READ == 0
PERF_COUNT_HW_CACHE_OP_WRITE == 1
PERF_COUNT_HW_CACHE_RESULT_ACCESS == 0
PERF_COUNT_HW_CACHE_RESULT_MISS == 1
PERF_COUNT_SW_PAGE_FAULTS == 2

kHW == PERF_TYPE_HARDWARE
kL3 == PERF_COUNT_HW_CACHE_LL
\* The shifted fields occupy disjoint bits, so | is +.
kLoad == PERF_COUNT_HW_CACHE_OP_READ * 256
kStore == PERF_COUNT_HW_CACHE_OP_WRITE * 256
kAcc == PERF_COUNT_HW_CACHE_RESULT_ACCESS * 65536
kMiss == PERF_COUNT_HW_CACHE_RESULT_MISS * 65536

(***************************************************************************)
(* PerfCounters                                                            *)
(***************************************************************************)
\* PerfCounters::Num()
Num == 11

\* The names PerfCounters::ForEach passes to its visitor, in visiting order.
ForEach ==
  << "ref_cycle", "instruction", "branch", "branch_mispred",
     "frontend_stall", "backend_stall", "l3_load", "l3_store",
     "l3_load_miss", "l3_store_miss", "page_fault" >>

\* Values of idx_counter (0-based, as in the code).
Idx == 0 .. (Num - 1)

NameOf(i) == ForEach[i + 1]

\* The fields declared double; the others are float.
DoubleFields == {"ref_cycle", "instruction"}

\* static_cast<T>(x) of a double x, T the type of field i
CastT(i, x) == IF NameOf(i) \in DoubleFields THEN x ELSE CastFloat(x)

ForEachNames == {ForEach[k] : k \in 1 .. Len(ForEach)}

(***************************************************************************)
(* CounterCatalog                                                          *)
(***************************************************************************)
CounterConfig(c, t) == [abort |-> FALSE, config |-> c, type |-> t]

\* HWY_ABORT: no value is returned
Aborted == [abort |-> TRUE, config |-> 0, type |-> 0]

\* FindSoftwareConfig with a misspelt literal
FindSoftwareConfigTypo(name) ==
  IF name = "page_faults"
  THEN CounterConfig(PERF_COUNT_SW_PAGE_FAULTS, PERF_TYPE_SOFTWARE)
  ELSE Aborted

\* The software event, then the HWY_ABORT every other name runs into.
FindSoftwareConfig(name) ==
  IF name = "page_fault"
  THEN CounterConfig(PERF_COUNT_SW_PAGE_FAULTS, PERF_TYPE_SOFTWARE)
  ELSE Aborted

FindCounterConfig(name) ==
  IF name = "ref_cycle" THEN CounterConfig(PERF_COUNT_HW_REF_CPU_CYCLES, kHW)
  ELSE IF name = "instruction" THEN CounterConfig(PERF_COUNT_HW_INSTRUCTIONS, kHW)
  ELSE IF name = "branch" THEN CounterConfig(PERF_COUNT_HW_BRANCH_INSTRUCTIONS, kHW)
  ELSE IF name = "branch_mispred" THEN CounterConfig(PERF_COUNT_HW_BRANCH_MISSES, kHW)
  ELSE IF name = "frontend_stall"
    THEN CounterConfig(PERF_COUNT_HW_STALLED_CYCLES_FRONTEND, kHW)
  ELSE IF name = "backend_stall"
    THEN CounterConfig(PERF_COUNT_HW_STALLED_CYCLES_BACKEND, kHW)
  ELSE IF name = "l3_load" THEN CounterConfig(kL3 + kLoad + kAcc, PERF_TYPE_HW_CACHE)
  ELSE IF name = "l3_store" THEN CounterConfig(kL3 + kStore + kAcc, PERF_TYPE_HW_CACHE)
  ELSE IF name = "l3_load_miss"
    THEN CounterConfig(kL3 + kLoad + kMiss, PERF_TYPE_HW_CACHE)
  ELSE IF name = "l3_store_miss"
    THEN CounterConfig(kL3 + kStore + kMiss, PERF_TYPE_HW_CACHE)
  ELSE FindSoftwareConfig(name)

(***************************************************************************)
(* State                                                                   *)
(***************************************************************************)
VARIABLES
  pc,          \* "init" (not constructed), "live", "stopped" (Stop has
               \* returned and its PerfCounters is in scope), "destroyed",
               \* "aborted" (HWY_ASSERT/HWY_ABORT fired), "hung" (Stop never
               \* returns)
  supported,   \* result of PerfCountersSupported() at construction
  valid_,      \* BitSet64 valid_: set of idx_counter whose bit is set
  fds_,        \* std::vector<int> fds_
  errno,       \* the thread's errno
  kern,        \* kernel: fd -> perf event state
  win,         \* fd -> kernel sample when the current Start/Stop window began
  \* The last PMU call, as its caller and the kernel saw it:
  ret,         \* what it returned
  ops,         \* the system calls it issued, in order
  before,      \* Stop: the PerfCounters passed, idx_counter -> value, on entry
  counters,    \* Stop: the same PerfCounters afterwards
  samples,     \* Stop: idx_counter -> the Buf a full read() delivered
  \* The same call made on the PMU of a non-Linux build:
  stubCounters, \* Stop: the PerfCounters passed, afterwards
  stubRet,     \* what it returned
  lookupName,  \* argument of the last FindCounterConfig call ("" if none)
  lookupRet,   \* its result
  seen         \* name -> result of the first FindCounterConfig call on it

vars == << pc, supported, valid_, fds_, errno, kern, win, ret, ops, before,
           counters, samples, stubCounters, stubRet, lookupName, lookupRet, seen >>

catalogVars == << lookupName, lookupRet, seen >>

\* One entry of ops.  fd: the handle (or the result of open); idx: the
\* canonical counter concerned (-1 if none); grp: group_fd passed to open;
\* dis: attr.disabled passed to open.
Op(o, fd, idx, grp, dis) == [op |-> o, fd |-> fd, idx |-> idx, grp |-> grp, dis |-> dis]

\* Return value of a PMU call: Start sets ok, Stop sets cov.
Ret(o, ok, cov) == [op |-> o, ok |-> ok, cov |-> cov]

NoFn == [x \in {} |-> 0]

\* A PerfCounters with every field set to the integer v
Fill(v) == [i \in Idx |-> FromInt(v)]

(***************************************************************************)
(* Kernel side of the perf_event interface                                 *)
(***************************************************************************)
\* A new file descriptor: 0, 1, 2 are taken, the lowest free one is returned.
NewFd(k) == 3 + Cardinality(DOMAIN k)

\* perf_event_open succeeded: a new event, count and times at zero.  script
\* is what the kernel will answer to the read() calls on it (see
\* ReadScripts).
KernOpen(k, fd, idx, cc, group_fd, disabled) ==
  [f \in DOMAIN k \cup {fd} |->
     IF f = fd
     THEN [idx |-> idx, type |-> cc.type,
           group_fd |-> group_fd, disabled |-> disabled,
           value |-> 0, time_enabled |-> 0, time_running |-> 0, closes |-> 0,
           script |-> << "ok" >>]
     ELSE k[f]]

\* ioctl(fd, PERF_EVENT_IOC_RESET): the event count goes back to zero, the
\* times do not.
KernReset(k, fd) == [k EXCEPT ![fd].value = 0]

\* ioctl(fd, PERF_EVENT_IOC_ENABLE / PERF_EVENT_IOC_DISABLE)
KernEnable(k, fd) == [k EXCEPT ![fd].disabled = FALSE]
KernDisable(k, fd) == [k EXCEPT ![fd].disabled = TRUE]

\* close(fd)
KernClose(k, fd) == [k EXCEPT ![fd].closes = @ + 1]

\* An event counts while it is enabled and, for a group member, while its
\* group leader is enabled.
Counting(k, fd) ==
  /\ k[fd].closes = 0
  /\ ~k[fd].disabled
  /\ k[fd].group_fd # -1 => ~k[k[fd].group_fd].disabled

\* One scheduler tick: every counting event is enabled for the tick; those
\* in run are on the PMU for it and count the events the workload produces
\* in it, ev[idx] of them for canonical counter idx.
KernTick(k, run, ev) ==
  [f \in DOMAIN k |->
     IF ~Counting(k, f) THEN k[f]
     ELSE IF f \in run
       THEN [k[f] EXCEPT !.time_enabled = @ + 1, !.time_running = @ + 1,
                         !.value = @ + ev[k[f].idx]]
       ELSE [k[f] EXCEPT !.time_enabled = @ + 1]]

\* struct Buf as read(fd) fills it
Buf(k, fd) == [value |-> k[fd].value, time_enabled |-> k[fd].time_enabled,
               time_running |-> k[fd].time_running]

(***************************************************************************)
(* PMU::Impl::Impl                                                         *)
(***************************************************************************)
\* attr.disabled as SysPerfEventOpen sets it
\* SysPerfEventOpenDisabled opening every event disabled
SysPerfEventOpenDisabledAlways(group_fd) == TRUE

SysPerfEventOpenDisabled(group_fd) == group_fd = -1

\* CtorOpenFailed with valid_.Set outside the else branch
CtorOpenFailedSetsBit(st, i, fd) ==
  [st EXCEPT !.errno = "ENOENT",
             !.ops = Append(@, Op("open", fd, i, st.group_fd,
                                  SysPerfEventOpenDisabled(st.group_fd))),
             !.valid = @ \cup {i}]

\* CtorOpenFailed with fds_.push_back outside the else branch
CtorOpenFailedPushes(st, i, fd) ==
  [st EXCEPT !.errno = "ENOENT",
             !.ops = Append(@, Op("open", fd, i, st.group_fd,
                                  SysPerfEventOpenDisabled(st.group_fd))),
             !.fds = Append(@, fd)]

\* The visitor's branch for fd < 0.
CtorOpenFailed(st, i, fd) ==
  [st EXCEPT !.errno = "ENOENT",
             !.ops = Append(@, Op("open", fd, i, st.group_fd,
                                  SysPerfEventOpenDisabled(st.group_fd)))]

\* The visitor's branch for fd >= 0.
\* CtorGroupFd taking the leader from the first canonical counter only
CtorGroupFdFirstCounterOnly(group_fd, i, fd) == IF i = 0 THEN fd ELSE group_fd

\* if (group_fd == -1) group_fd = fd;
CtorGroupFd(group_fd, i, fd) == IF group_fd = -1 THEN fd ELSE group_fd

CtorOpened(st, i, fd, config) ==
  LET dis == SysPerfEventOpenDisabled(st.group_fd) IN
  [st EXCEPT
     !.kern = KernReset(KernOpen(st.kern, fd, i, config, st.group_fd, dis), fd),
     !.ops = @ \o << Op("open", fd, i, st.group_fd, dis),
                     Op("ioctl_reset", fd, i, -1, FALSE) >>,
     !.group_fd = CtorGroupFd(@, i, fd),
     !.valid = @ \cup {i},
     !.fds = Append(@, fd)]

\* Body of the constructor's visitor for idx_counter = i; fail is the set
\* of counters whose perf_event_open returns -1.
CtorVisit(st, i, fail) ==
  LET config == FindCounterConfig(NameOf(i))
      fd == IF i \in fail THEN -1 ELSE NewFd(st.kern)
      opened == IF fd < 0 THEN CtorOpenFailed(st, i, fd)
                ELSE CtorOpened(st, i, fd, config)
  IN IF st.aborted THEN st
     ELSE IF config.abort THEN [st EXCEPT !.aborted = TRUE]
     ELSE IF i = 0 /\ config.type # PERF_TYPE_HARDWARE
       THEN [opened EXCEPT !.aborted = TRUE]
     ELSE opened

RECURSIVE CtorForEach(_, _, _)
CtorForEach(st, i, fail) ==
  IF i = Num THEN st ELSE CtorForEach(CtorVisit(st, i, fail), i + 1, fail)

\* PerfCountersSupported(): the stat() call and the errno it leaves when
\* errno was e before.
StatOp(sup) == Op("stat", IF sup THEN 0 ELSE -1, -1, -1, FALSE)
StatErrno(sup, e) == IF sup THEN e ELSE "ENOENT"

\* The constructor, entered with errno = e: sup is whether the stat() of
\* PerfCountersSupported succeeds, fail the set of counters whose
\* perf_event_open returns -1.
CtorRun(e, sup, fail) ==
  LET st == CtorForEach([group_fd |-> -1, valid |-> {}, fds |-> << >>,
                         kern |-> NoFn, errno |-> StatErrno(sup, e),
                         ops |-> << StatOp(sup) >>,
                         aborted |-> FALSE], 0, fail)
  IN IF ~sup THEN [group_fd |-> -1, valid |-> {}, fds |-> << >>,
                   kern |-> NoFn, errno |-> StatErrno(sup, e),
                   ops |-> << StatOp(sup) >>, aborted |-> FALSE]
     ELSE IF st.aborted THEN st
     ELSE [st EXCEPT !.aborted = Len(st.fds) # Cardinality(st.valid)]

CtorResult(fail) == CtorRun(errno, TRUE, fail)

\* Every outcome the eleven perf_event_open calls can have
OpenFailSets == SUBSET Idx

\* A call that takes no PerfCounters
NoCounters == NoFn

Construct ==
  /\ pc = "init"
  /\ \E sup \in BOOLEAN :
       \E fail \in IF sup THEN OpenFailSets ELSE {{}} :
         \E st \in {CtorRun(errno, sup, fail)} :
         /\ supported' = sup
         /\ pc' = IF st.aborted THEN "aborted" ELSE "live"
         /\ valid_' = st.valid
         /\ fds_' = st.fds
         /\ errno' = st.errno
         /\ kern' = st.kern
         /\ ops' = st.ops
  /\ ret' = Ret("PMU", FALSE, Zero)
  /\ stubRet' = Ret("PMU", FALSE, Zero)
  /\ UNCHANGED << win, before, counters, samples, stubCounters >>
  /\ UNCHANGED catalogVars

(***************************************************************************)
(* PMU for other platforms (the #else branch)                              *)
(***************************************************************************)
\* bool PMU::Start() { return false; }
StubStart == Ret("Start", FALSE, Zero)

\* double PMU::Stop(PerfCounters&) { return 0.0; }
StubStop == Ret("Stop", FALSE, Zero)

\* StubStopCounters clearing the PerfCounters
StubStopCountersZero(c) == Fill(0)

\* ... and what it leaves in the PerfCounters it was passed
StubStopCounters(c) == c

(***************************************************************************)
(* PMU::Impl::Start                                                        *)
(***************************************************************************)
\* The window whose events Stop is documented to report begins when Start
\* returns true and lasts until the PerfCounters of the next Stop is
\* discarded; win is empty outside a window.
WinBegin(k) == [f \in DOMAIN k |-> Buf(k, f)]

\* StartInert returning true
StartInertTrue == Ret("Start", TRUE, Zero)

\* if (fds_.empty()) return false;
StartInert == Ret("Start", FALSE, Zero)

Start ==
  /\ pc = "live"
  /\ stubRet' = StubStart
  /\ IF Len(fds_) = 0
     THEN /\ ret' = StartInert
          /\ ops' = << >>
          /\ UNCHANGED << pc, kern, errno, win >>
     ELSE \E enableOk \in BOOLEAN :
            /\ ops' = << Op("ioctl_enable", fds_[1], -1, -1, FALSE) >>
            /\ IF enableOk
               THEN /\ kern' = KernEnable(kern, fds_[1])
                    /\ win' = IF win = NoFn THEN WinBegin(kern) ELSE win
                    /\ ret' = Ret("Start", TRUE, Zero)
                    /\ UNCHANGED << pc, errno >>
               ELSE /\ pc' = "aborted"
                    /\ errno' = "EBADF"
                    /\ ret' = Ret("none", FALSE, Zero)
                    /\ UNCHANGED << kern, win >>
  /\ before' = NoCounters
  /\ counters' = NoCounters
  /\ stubCounters' = NoCounters
  /\ samples' = NoFn
  /\ UNCHANGED << supported, valid_, fds_ >>
  /\ UNCHANGED catalogVars

(***************************************************************************)
(* The measured workload                                                   *)
(***************************************************************************)
\* Which events the kernel has on the PMU during one tick: the whole
\* group, or (multiplexing) the group leader alone or nothing of this group.
RunSets == { {fds_[j] : j \in 1 .. Len(fds_)}, {fds_[1]}, {} }

\* The events the workload produces in one tick, per canonical counter: up
\* to MaxEvents events of one kind.
EventSets ==
  { [i \in Idx |-> IF i = j THEN a ELSE 0] : j \in Idx, a \in 0 .. MaxEvents }

Work ==
  /\ pc = "live"
  /\ Len(fds_) > 0
  /\ Counting(kern, fds_[1])
  /\ kern[fds_[1]].time_enabled < MaxTicks
  /\ \E run \in RunSets, ev \in EventSets : kern' = KernTick(kern, run, ev)
  /\ UNCHANGED << pc, supported, valid_, fds_, errno, win, ret, ops, before,
                  counters, samples, stubCounters, stubRet >>
  /\ UNCHANGED catalogVars

(***************************************************************************)
(* PMU::Impl::Stop                                                         *)
(***************************************************************************)
\* What the successive read() calls on one event return, held by the kernel
\* as the event's script: "ok" a full Buf, "eagain" -1 with errno = EAGAIN,
\* "err" -1 with another errno, "short" fewer bytes than a Buf (errno
\* untouched), "skew" a full Buf whose time_running exceeds its
\* time_enabled.  The last entry repeats.
ReadScripts ==
  { <<"ok">>, <<"err">>, <<"short">>, <<"eagain", "ok">>, <<"eagain">>, <<"skew">>,
    <<"eagain", "ok", "short">> }

\* The Buf a full read() of kind h ("ok" or "skew") delivers
KernRead(k, fd, h) ==
  IF h = "skew"
  THEN [value |-> k[fd].value, time_enabled |-> k[fd].time_enabled,
        time_running |-> k[fd].time_enabled + 1]
  ELSE Buf(k, fd)

\* The AGAIN loop: how it ends ("full", "fail", or "hang" when it never
\* does), the errno it leaves, the number of read() calls up to the one
\* that ends it or repeats for ever, and what that last call returned.
RECURSIVE ReadLoop(_, _, _)
ReadLoop(script, e, n) ==
  LET h == Head(script)
      rest == IF Len(script) = 1 THEN script ELSE Tail(script)
      e2 == IF h = "eagain" THEN "EAGAIN" ELSE IF h = "err" THEN "EIO" ELSE e
  IN IF h \in {"ok", "skew"}
       THEN [outcome |-> "full", errno |-> e2, reads |-> n, last |-> h]
     ELSE IF e2 # "EAGAIN"
       THEN [outcome |-> "fail", errno |-> e2, reads |-> n, last |-> h]
     ELSE IF Len(script) = 1
       THEN [outcome |-> "hang", errno |-> e2, reads |-> n, last |-> h]
     ELSE ReadLoop(rest, e2, n + 1)

\* How a read() call of kind h appears in ops
ReadOpName(h) ==
  IF h \in {"ok", "skew"} THEN "read" ELSE IF h = "eagain" THEN "read_eagain"
  ELSE IF h = "err" THEN "read_err" ELSE "read_short"

ReadOpNames == {"read", "read_eagain", "read_err", "read_short"}

\* The n read() calls the AGAIN loop makes on fd when they follow script
ReadOps(fd, i, script, n) ==
  [j \in 1 .. n |->
     Op(ReadOpName(script[IF j < Len(script) THEN j ELSE Len(script)]),
        fd, i, -1, FALSE)]

\* IdxFdAfter advancing only after a full read
IdxFdAfterFullOnly(idx_fd, outcome) == IF outcome = "full" THEN idx_fd + 1 ELSE idx_fd

\* idx_fd after fds_[idx_fd++]
IdxFdAfter(idx_fd, outcome) == idx_fd + 1

\* TimesConsistent with the comparison turned around
TimesConsistentSwapped(buf) == buf.time_running >= buf.time_enabled

\* The condition of HWY_ASSERT(buf.time_running <= buf.time_enabled)
TimesConsistent(buf) == buf.time_running <= buf.time_enabled

\* f with x mapped to v
Put(f, x, v) == [y \in DOMAIN f \cup {x} |-> IF y = x THEN v ELSE f[y]]

\* Quotients of small operands are computed once and looked up afterwards:
\* Fraction(r, e) = DivInt(r, e), and Extrapolate(i, buf) is the value of
\* slot i, CastT(i, DivRat(buf.value, fraction)) for that fraction.
SmallTimes == 1 .. (MaxTicks + MaxSampleTime)
SmallValues == 1 .. (MaxEvents * MaxTicks + MaxSampleValue)

FractionTable == [r \in SmallTimes, e \in SmallTimes |-> DivInt(r, e)]

Fraction(r, e) ==
  IF r \in SmallTimes /\ e \in SmallTimes THEN FractionTable[r, e]
  ELSE DivInt(r, e)

ExtrapolateTable ==
  [v \in SmallValues, r \in SmallTimes, e \in SmallTimes |->
     [double |-> DivRat(v, DivInt(r, e)),
      float |-> CastFloat(DivRat(v, DivInt(r, e)))]]

Extrapolate(i, buf) ==
  IF buf.value = 0 THEN Zero
  ELSE IF /\ buf.value \in SmallValues
          /\ buf.time_running \in SmallTimes
          /\ buf.time_enabled \in SmallTimes
    THEN IF NameOf(i) \in DoubleFields
           THEN ExtrapolateTable[buf.value, buf.time_running,
                                 buf.time_enabled].double
           ELSE ExtrapolateTable[buf.value, buf.time_running,
                                 buf.time_enabled].float
  ELSE CastT(i, DivRat(buf.value,
                       DivInt(buf.time_running, buf.time_enabled)))

\* Body of Stop's visitor for idx_counter = i.
StopVisit(st, i) ==
  LET zeroed == [st EXCEPT !.counters[i] = Zero]
      fd == fds_[st.idx_fd + 1]
      r == ReadLoop(kern[fd].script, st.errno, 1)
      buf == KernRead(kern, fd, r.last)
      fraction == Fraction(buf.time_running, buf.time_enabled)
      rd == [zeroed EXCEPT !.idx_fd = IdxFdAfter(@, r.outcome), !.errno = r.errno,
                           !.ops = @ \o ReadOps(fd, i, kern[fd].script, r.reads)]
      full == [rd EXCEPT !.samples = Put(@, i, buf)]
  IN IF st.aborted \/ st.hung THEN st
     ELSE IF i \notin valid_ THEN zeroed
     ELSE IF r.outcome = "hang" THEN [rd EXCEPT !.hung = TRUE]
     ELSE IF r.outcome = "fail" THEN rd
     ELSE IF ~TimesConsistent(buf) THEN [full EXCEPT !.aborted = TRUE]
     ELSE IF buf.time_running = 0 THEN full
     ELSE IF ~(FLess(Zero, fraction) /\ ~FLess(One, fraction))
       THEN [full EXCEPT !.aborted = TRUE]
     ELSE [full EXCEPT !.min_fraction = HWY_MIN(@, fraction),
                       !.counters[i] = Extrapolate(i, buf)]

RECURSIVE StopForEach(_, _)
StopForEach(st, i) ==
  IF i = Num THEN st ELSE StopForEach(StopVisit(st, i), i + 1)

\* StopResult issuing the leader's disable after the reads
StopResultDisableLast(c) ==
  LET st == StopForEach([min_fraction |-> One, idx_fd |-> 0, counters |-> c,
                         errno |-> errno, samples |-> NoFn, ops |-> << >>,
                         aborted |-> FALSE, hung |-> FALSE], 0)
  IN [st EXCEPT !.ops = Append(@, Op("ioctl_disable", fds_[1], -1, -1, FALSE))]

StopResult(c) ==
  StopForEach([min_fraction |-> One, idx_fd |-> 0, counters |-> c,
               errno |-> errno, samples |-> NoFn,
               ops |-> << Op("ioctl_disable", fds_[1], -1, -1, FALSE) >>,
               aborted |-> FALSE, hung |-> FALSE], 0)

\* The read() calls of one Stop use up the entries of the events' scripts,
\* except the last entry of a script, which repeats.
KernConsume(k, o) ==
  [f \in DOMAIN k |->
     LET n == Cardinality({j \in 1 .. Len(o) :
                             o[j].fd = f /\ o[j].op \in ReadOpNames})
         m == IF n < Len(k[f].script) THEN n ELSE Len(k[f].script) - 1
     IN [k[f] EXCEPT !.script = SubSeq(@, m + 1, Len(@))]]

\* if (fds_.empty()) return 0.0;
StopInert(c) == [ret |-> Ret("Stop", FALSE, Zero), counters |-> c]

Stop ==
  /\ pc = "live"
  /\ \E v \in {0, MaxPrior} :
       /\ before' = Fill(v)
       /\ stubCounters' = StubStopCounters(Fill(v))
       /\ stubRet' = StubStop
       /\ IF Len(fds_) = 0
          THEN /\ ret' = StopInert(Fill(v)).ret
               /\ ops' = << >>
               /\ counters' = StopInert(Fill(v)).counters
               /\ samples' = NoFn
               /\ pc' = "stopped"
               /\ UNCHANGED << kern, errno >>
          ELSE \E st \in {StopResult(Fill(v))} :
                 /\ kern' = KernConsume(KernDisable(kern, fds_[1]), st.ops)
                 /\ counters' = st.counters
                 /\ samples' = st.samples
                 /\ errno' = st.errno
                 /\ ops' = st.ops
                 /\ pc' = IF st.aborted THEN "aborted"
                          ELSE IF st.hung THEN "hung" ELSE "stopped"
                 /\ ret' = IF st.aborted \/ st.hung THEN Ret("none", FALSE, Zero)
                           ELSE Ret("Stop", FALSE, st.min_fraction)
  /\ UNCHANGED << supported, valid_, fds_, win >>
  /\ UNCHANGED catalogVars

(***************************************************************************)
(* The caller after Stop                                                   *)
(***************************************************************************)
\* The PerfCounters passed to Stop goes out of scope.
Discard ==
  /\ pc = "stopped"
  /\ pc' = "live"
  /\ ret' = Ret("none", FALSE, Zero)
  /\ stubRet' = Ret("none", FALSE, Zero)
  /\ ops' = << >>
  /\ before' = NoCounters
  /\ counters' = NoCounters
  /\ stubCounters' = NoCounters
  /\ samples' = NoFn
  /\ win' = NoFn
  /\ UNCHANGED << supported, valid_, fds_, errno, kern >>
  /\ UNCHANGED catalogVars

(***************************************************************************)
(* PMU::Impl::~Impl                                                        *)
(***************************************************************************)
\* The destructor's loop over fds_[j..]; failAt is the position whose
\* close() does not return 0 (0: none).
\* DtorClose closing fds_[0] in every iteration
DtorCloseFirst(st, fd) ==
  [st EXCEPT !.kern = KernClose(@, fds_[1]),
             !.ops = Append(@, Op("close", fds_[1], -1, -1, FALSE))]

\* close(fd) returned 0
DtorClose(st, fd) ==
  [st EXCEPT !.kern = KernClose(@, fd),
             !.ops = Append(@, Op("close", fd, -1, -1, FALSE))]

RECURSIVE DtorLoop(_, _, _)
DtorLoop(st, j, failAt) ==
  IF j > Len(fds_) \/ st.aborted THEN st
  ELSE IF ~(fds_[j] >= 0) THEN [st EXCEPT !.aborted = TRUE]
  ELSE IF j = failAt
    THEN [st EXCEPT !.aborted = TRUE, !.errno = "EIO",
                    !.ops = Append(@, Op("close", fds_[j], -1, -1, FALSE))]
  ELSE DtorLoop(DtorClose(st, fds_[j]), j + 1, failAt)

Destroy ==
  /\ pc = "live"
  /\ \E failAt \in 0 .. Len(fds_) :
       \E st \in {DtorLoop([kern |-> kern, errno |-> errno, ops |-> << >>,
                            aborted |-> FALSE], 1, failAt)} :
       /\ kern' = st.kern
       /\ errno' = st.errno
       /\ ops' = st.ops
       /\ pc' = IF st.aborted THEN "aborted" ELSE "destroyed"
  /\ ret' = Ret("~PMU", FALSE, Zero)
  /\ stubRet' = Ret("~PMU", FALSE, Zero)
  /\ before' = NoCounters
  /\ counters' = NoCounters
  /\ stubCounters' = NoCounters
  /\ samples' = NoFn
  /\ UNCHANGED << supported, valid_, fds_, win >>
  /\ UNCHANGED catalogVars

(***************************************************************************)
(* Specification of the construction of one PMU instance                   *)
(***************************************************************************)
Init ==
  /\ pc = "init"
  /\ supported = FALSE
  /\ valid_ = {}
  /\ fds_ = << >>
  /\ errno = "none"
  /\ kern = NoFn
  /\ win = NoFn
  /\ ret = Ret("none", FALSE, Zero)
  /\ stubRet = Ret("none", FALSE, Zero)
  /\ ops = << >>
  /\ before = NoCounters
  /\ counters = NoCounters
  /\ stubCounters = NoCounters
  /\ samples = NoFn
  /\ lookupName = ""
  /\ lookupRet = Aborted
  /\ seen = NoFn

NextCtor == Construct

SpecCtor == Init /\ [][NextCtor]_vars

(***************************************************************************)
(* Specification of one constructed PMU instance and its caller            *)
(***************************************************************************)
\* The state Construct leaves: the capability is absent, or the opens of
\* any of the counters failed.  In this specification the kernel answers
\* every read() with a full Buf; SpecSamples and SpecReads below have the
\* reads that it does not.
InitLive ==
  \E sup \in BOOLEAN :
    \E fail \in IF sup THEN OpenFailSets ELSE {{}} :
      \E st \in {CtorRun("none", sup, fail)} :
        /\ pc = "live"
        /\ supported = sup
        /\ valid_ = st.valid
        /\ fds_ = st.fds
        /\ errno = st.errno
        /\ kern = st.kern
        /\ ops = st.ops
        /\ win = NoFn
        /\ ret = Ret("PMU", FALSE, Zero)
        /\ stubRet = Ret("PMU", FALSE, Zero)
        /\ before = NoCounters
        /\ counters = NoCounters
        /\ stubCounters = NoCounters
        /\ samples = NoFn
        /\ lookupName = ""
        /\ lookupRet = Aborted
        /\ seen = NoFn

Next == Start \/ Work \/ Stop \/ Discard \/ Destroy

Spec == InitLive /\ [][Next]_vars

(***************************************************************************)
(* Specification of the catalog's callers                                  *)
(***************************************************************************)
\* Names handed to FindCounterConfig: those of ForEach and some others.
LookupNames ==
  ForEachNames \cup {"not_a_real_counter", "", "REF_CYCLE", "ref_cycl",
                     "branch_", "page_faults"}

Lookup ==
  /\ pc = "init"
  /\ \E name \in LookupNames :
       \E r \in {FindCounterConfig(name)} :
         /\ lookupName' = name
         /\ lookupRet' = r
         /\ seen' = IF name \in DOMAIN seen THEN seen ELSE Put(seen, name, r)
         /\ pc' = IF r.abort THEN "aborted" ELSE pc
  /\ UNCHANGED << supported, valid_, fds_, errno, kern, win, ret, ops, before,
                  counters, samples, stubCounters, stubRet >>

NextCatalog == Lookup

SpecCatalog == Init /\ [][NextCatalog]_vars

(***************************************************************************)
(* Specifications of Stop on an instance whose events have counted         *)
(***************************************************************************)
\* The sample the kernel holds for the k-th opened event (k from 0) after
\* round s of a workload: the event was enabled for 1 .. MaxSampleTime
\* ticks, on the PMU for none to all of them and, unless it never ran,
\* counted 0 .. MaxSampleValue events.  Events opened one after the other
\* differ in all three, and over the rounds an event runs for every part
\* of the time it was enabled.
SampleAt(s, k) ==
  LET e == MaxSampleTime - (k % MaxSampleTime)
      r == (s + k) % (e + 1)
  IN [value |-> IF r = 0 THEN 0 ELSE MaxSampleValue - (k % (MaxSampleValue + 1)),
      time_enabled |-> e, time_running |-> r]

SampleRounds == 0 .. MaxSampleTime

\* The scripts of the events of an instance, per canonical counter: the
\* reads of up to MaxFaults events follow any script other than <<"ok">>.
FaultPlans(valid) ==
  UNION { { [i \in valid |-> IF i \in D THEN g[i] ELSE <<"ok">>] :
              g \in [D -> ReadScripts \ {<<"ok">>}] } :
          D \in {X \in SUBSET valid : Cardinality(X) <= MaxFaults} }

\* ... or the reads of any set of events fail with an errno other than
\* EAGAIN.
FailPlans(valid) ==
  { [i \in valid |-> IF i \in D THEN <<"err">> ELSE <<"ok">>] : D \in SUBSET valid }

\* The kernel after Start and round s of the workload, its events following
\* the scripts of plan; st is what the constructor left.
KernSampled(st, s, plan) ==
  [f \in DOMAIN st.kern |->
     LET at == SampleAt(s, (CHOOSE j \in 1 .. Len(st.fds) : st.fds[j] = f) - 1)
     IN [KernEnable(st.kern, st.fds[1])[f] EXCEPT
           !.value = at.value, !.time_enabled = at.time_enabled,
           !.time_running = at.time_running, !.script = plan[st.kern[f].idx]]]

\* An instance with handles after construction (st), Start and a workload
AfterWorkload(st, s, plan) ==
  /\ errno = st.errno
  /\ valid_ = st.valid
  /\ fds_ = st.fds
  /\ kern = KernSampled(st, s, plan)
  /\ win = WinBegin(st.kern)
  /\ ops = << Op("ioctl_enable", st.fds[1], -1, -1, FALSE) >>
  /\ pc = "live"
  /\ supported = TRUE
  /\ ret = Ret("Start", TRUE, Zero)
  /\ stubRet = StubStart
  /\ before = NoCounters
  /\ counters = NoCounters
  /\ stubCounters = NoCounters
  /\ samples = NoFn
  /\ lookupName = ""
  /\ lookupRet = Aborted
  /\ seen = NoFn

\* Whichever opens failed, after any round of the workload, with up to
\* MaxFaults events whose reads misbehave.
InitSamples ==
  \E fail \in OpenFailSets \ {Idx} :
    \E st \in {CtorRun("none", TRUE, fail)} :
      \E s \in SampleRounds, plan \in FaultPlans(st.valid) :
        AfterWorkload(st, s, plan)

NextSamples == Stop

SpecSamples == InitSamples /\ [][NextSamples]_vars

\* Whichever opens failed, after the first round of the workload, with up to
\* MaxFaults events whose reads misbehave or any set of events whose reads
\* fail; the caller stops the instance more than once.
InitReads ==
  \E fail \in OpenFailSets \ {Idx} :
    \E st \in {CtorRun("none", TRUE, fail)} :
      \E plan \in FaultPlans(st.valid) \cup FailPlans(st.valid) :
        AfterWorkload(st, 0, plan)

NextReads == Stop \/ Discard

SpecReads == InitReads /\ [][NextReads]_vars

(***************************************************************************)
(* Properties                                                              *)
(***************************************************************************)
\* The handles the kernel holds open for this process
Held == {f \in DOMAIN kern : kern[f].closes = 0}

\* The counters whose sample entered Stop's minimum
Contrib == {i \in DOMAIN samples : samples[i].time_running # 0}

SampleFraction(i) == Fraction(samples[i].time_running, samples[i].time_enabled)

\* The handle opened for canonical counter i
FdOf(i) == CHOOSE f \in DOMAIN kern : kern[f].idx = i

IsOpen(o) == o.op = "open"

\* The slots the test asserts on after a Stop with nonzero coverage
CoreSlots ==
  {i \in Idx : NameOf(i) \in {"ref_cycle", "instruction", "branch", "branch_mispred"}}

\* C1: on an instance constructed without the capability, Stop returns 0.0 and afterwards every field of the
\* PerfCounters is zero, whatever it held before.
C1_StopInertZeroesSet ==
  (pc = "stopped" /\ ~supported) =>
    /\ ret = Ret("Stop", FALSE, Zero)
    /\ \A i \in Idx : counters[i] = Zero

\* C2: Start returns true exactly when the constructor acquired at least one
\* counter handle; on an inert instance Start returns false and neither
\* Start nor Stop issues any system call.
C2_StartTrueIffHandles ==
  /\ ret.op = "Start" => (ret.ok <=> DOMAIN kern # {})
  /\ (DOMAIN kern = {} /\ ret.op \in {"Start", "Stop"}) =>
       /\ ops = << >>
       /\ ret.op = "Start" => ~ret.ok

C2_Witness ==
  /\ supported
  /\ DOMAIN kern = {}
  /\ ret = Ret("Start", FALSE, Zero)
  /\ ops = << >>

\* C3: after a Start that returned true, a Stop that returns a coverage
\* other than 0.0 has populated ref_cycle, instruction, branch and
\* branch_mispred from a successful read of an opened counter.
C3_CoreSlotsRead ==
  (pc = "stopped" /\ win # NoFn /\ ret.cov # Zero) =>
    \A i \in CoreSlots : i \in valid_ /\ i \in DOMAIN samples

\* C4: each value Stop writes is the extrapolated count of the events
\* between the Start that opened the window and this Stop, not of events of
\* earlier windows.
C4_ValuesSinceStart ==
  (pc = "stopped" /\ win # NoFn) =>
    \A i \in DOMAIN samples :
      LET b == win[FdOf(i)]
          value == samples[i].value - b.value
          enabled == samples[i].time_enabled - b.time_enabled
          running == samples[i].time_running - b.time_running
      IN counters[i] = IF running = 0 THEN Zero
                       ELSE CastT(i, DivRat(value, DivInt(running, enabled)))

\* C5: on a non-inert instance Stop returns the minimum of running/enabled
\* over the valid counters that were read in full and have nonzero running
\* time, and 1.0 when there is no such counter.
C5_MinCoverage ==
  (pc = "stopped" /\ Len(fds_) > 0) =>
    /\ DOMAIN samples \subseteq valid_
    /\ \A i \in Contrib : ~FLess(SampleFraction(i), ret.cov)
    /\ Contrib # {} => \E i \in Contrib : ret.cov = SampleFraction(i)
    /\ Contrib = {} => ret.cov = One

\* Stop returned a coverage below 1.0 after the reads of two counters
\* failed, one of them the counter that ran for the smallest part of its
\* time, one sample had not run at all and one had run for a larger part
\* than the coverage returned
C5_Witness ==
  /\ pc = "stopped"
  /\ Cardinality(valid_ \ DOMAIN samples) >= 2
  /\ \E i \in valid_ \ DOMAIN samples :
       /\ kern[FdOf(i)].time_running # 0
       /\ FLess(Fraction(kern[FdOf(i)].time_running, kern[FdOf(i)].time_enabled),
                ret.cov)
  /\ \E i \in DOMAIN samples : samples[i].time_running = 0 /\ samples[i].time_enabled > 0
  /\ FLess(ret.cov, One)
  /\ \E i \in Contrib : FLess(ret.cov, SampleFraction(i))

\* C6: once constructed, the number of handles equals the population count
\* of the validity mask, before and after any Start and Stop.
C6_HandlesEqualPopCount ==
  pc # "init" =>
    /\ Len(fds_) = Cardinality(valid_)
    /\ pc \in {"live", "stopped"} => Cardinality(Held) = Cardinality(valid_)

C6_Witness ==
  /\ pc = "stopped"
  /\ supported
  /\ Cardinality(valid_) = Num - 1
  /\ Cardinality(Held) = Num - 1

\* C7: no handle is closed before destruction, and destruction closes every
\* handle that was opened exactly once.
C7_ClosedExactlyOnce ==
  /\ \A f \in DOMAIN kern : kern[f].closes <= 1
  /\ pc \in {"live", "stopped", "hung"} => \A f \in DOMAIN kern : kern[f].closes = 0
  /\ pc = "destroyed" => \A f \in DOMAIN kern : kern[f].closes = 1

C7_Witness ==
  /\ pc = "destroyed"
  /\ Cardinality(DOMAIN kern) = Num - 1
  /\ win # NoFn
  /\ \A f \in DOMAIN kern : kern[f].closes = 1

\* C8: a failed open leaves the counter's validity bit clear and records no
\* handle for it, all eleven counters are attempted in canonical order, and
\* the constructor completes whichever opens fail.
C8_OpenFailureSkipsCounter ==
  (ret.op = "PMU" /\ supported) =>
    LET opens == SelectSeq(ops, IsOpen) IN
    /\ pc = "live"
    /\ Len(opens) = Num
    /\ \A k \in 1 .. Len(opens) :
         /\ opens[k].idx = k - 1
         /\ opens[k].fd < 0 =>
              /\ (k - 1) \notin valid_
              /\ ~\E f \in DOMAIN kern : kern[f].idx = k - 1
         /\ opens[k].fd >= 0 => (k - 1) \in valid_
    /\ \A j \in 1 .. Len(fds_) : fds_[j] >= 0
    /\ Len(fds_) = Cardinality({k \in 1 .. Len(opens) : opens[k].fd >= 0})

C8_Witness ==
  /\ ret.op = "PMU"
  /\ pc = "live"
  /\ 0 \notin valid_
  /\ valid_ = Idx \ {0}
  /\ Len(fds_) = Num - 1

\* C9: without the capability the Linux PMU answers every Start and Stop as
\* the non-Linux PMU does: same return value, same PerfCounters afterwards.
C9_StubEquivalent ==
  (~supported /\ ret.op \in {"Start", "Stop"}) =>
    /\ ret = stubRet
    /\ counters = stubCounters

C9_Witness ==
  /\ ~supported
  /\ ret.op = "Stop"
  /\ stubRet.op = "Stop"
  /\ stubCounters = Fill(1)

\* C10: FindCounterConfig returns an identifier, the same on every call,
\* for exactly the names ForEach enumerates, and aborts the process on any
\* other name.
C10_LookupTotalOnForEach ==
  seen # NoFn =>
    /\ lookupRet.abort <=> lookupName \notin ForEachNames
    /\ lookupRet.abort <=> pc = "aborted"
    /\ lookupRet = seen[lookupName]
    /\ \A n \in DOMAIN seen : seen[n].abort <=> n \notin ForEachNames

C10_Witness ==
  /\ pc = "aborted"
  /\ lookupName = "not_a_real_counter"
  /\ ForEachNames \subseteq DOMAIN seen
  /\ \A n \in ForEachNames : ~seen[n].abort

\* The events the kernel holds as group leaders (opened with group_fd = -1)
Leaders == {f \in DOMAIN kern : kern[f].group_fd = -1}

\* C11 (as stated): on every instance that opened a handle, the group
\* leader is the handle of ref_cycle and is a PERF_TYPE_HARDWARE event.
C11_LeaderIsRefCycle ==
  DOMAIN kern # {} =>
    \E f \in DOMAIN kern :
      /\ Leaders = {f}
      /\ kern[f].idx = 0
      /\ kern[f].type = PERF_TYPE_HARDWARE

\* C11 (amended): on every instance that opened a handle there is exactly
\* one group leader, the handle of the first canonical counter whose open
\* succeeded; it is ref_cycle's handle when ref_cycle opened, and it is a
\* PERF_TYPE_HARDWARE event whenever any PERF_TYPE_HARDWARE counter opened.
C11_LeaderIsFirstOpened ==
  DOMAIN kern # {} =>
    \E f \in DOMAIN kern :
      /\ Leaders = {f}
      /\ kern[f].idx \in valid_
      /\ \A i \in valid_ : kern[f].idx <= i
      /\ 0 \in valid_ => kern[f].idx = 0
      /\ (\E g \in DOMAIN kern : kern[g].type = PERF_TYPE_HARDWARE)
           => kern[f].type = PERF_TYPE_HARDWARE

\* ref_cycle failed to open and "instruction" leads the group
C11_Witness ==
  /\ pc = "live"
  /\ 0 \notin valid_
  /\ Len(fds_) > 1
  /\ kern[fds_[1]].idx = 1
  /\ Leaders = {fds_[1]}

\* The state is the one a Stop call on an instance with handles left
AfterStop == before # NoCounters /\ Len(fds_) > 0

\* Position of a stored handle in fds_, i.e. its rank in the order of opening
PosOf(fd) == CHOOSE j \in 1 .. Len(fds_) : fds_[j] = fd

\* C12: within one Stop on an instance with handles, the first system call
\* is the disable of the group leader, everything after it is a read, the
\* reads visit the counters in canonical order, which is the order in which
\* their handles were opened, and a Stop that returns read every valid
\* counter.
C12_DisableThenReadsInOrder ==
  AfterStop =>
    /\ Len(ops) >= 1
    /\ ops[1].op = "ioctl_disable"
    /\ Leaders = {ops[1].fd}
    /\ \A k \in 2 .. Len(ops) : ops[k].op \in ReadOpNames
    /\ \A k, l \in 2 .. Len(ops) :
         k < l => /\ ops[k].idx <= ops[l].idx
                  /\ PosOf(ops[k].fd) <= PosOf(ops[l].fd)
    /\ pc = "stopped" => {ops[k].idx : k \in 2 .. Len(ops)} = valid_

\* A Stop over handles opened with a gap, one of whose reads was retried
C12_Witness ==
  /\ AfterStop
  /\ pc = "stopped"
  /\ ret.op = "Stop"
  /\ \E i \in Idx \ valid_ : \E j, k \in valid_ : j < i /\ i < k
  /\ Len(ops) = Cardinality(valid_) + 2
  /\ \E k \in 2 .. Len(ops) : ops[k].op = "read_eagain"

\* Counter i's read in the last Stop delivered a full Buf
ReadFull(i) == \E k \in 1 .. Len(ops) : ops[k].idx = i /\ ops[k].op = "read"

\* Significant bits of the type of field i
Precision(i) == IF NameOf(i) \in DoubleFields THEN 53 ELSE 24

\* The value of field i's type nearest to n / d, for integers n >= 0, d > 0
Nearest(i, n, d) == FDivP(FromInt(n), FromInt(d), Precision(i))

\* The mantissa of x # 0 written with p bits, and the exponent that goes with it
Wide(x, p) == <<BShl(x[1], p - Bits(x[1])), x[2] - (p - Bits(x[1]))>>

\* The values of p significant bits next above and next below x # 0
Above(x, p) == Norm(BSucc(Wide(x, p)[1]), Wide(x, p)[2])
Below(x, p) ==
  IF Bits(x[1]) = 1 THEN Norm(BSub(BShl(<<0, 1>>, p), <<0, 1>>), Wide(x, p)[2] - 1)
  ELSE Norm(BSub(Wide(x, p)[1], <<0, 1>>), Wide(x, p)[2])

\* The sample the kernel holds for counter i
KernSample(i) == Buf(kern, FdOf(i))

\* Counter i is valid, was read in full and has run
Extrapolated(i) == i \in valid_ /\ ReadFull(i) /\ KernSample(i).time_running # 0

\* C13 (as stated): after Stop returns on an instance with handles, every
\* slot is zero unless its counter is valid, was read in full and has
\* nonzero time_running; such a slot is value * time_enabled / time_running,
\* that is the value of the slot's type nearest to that quotient.
C13_SlotsExactQuotient ==
  (AfterStop /\ pc = "stopped") =>
    \A i \in Idx :
      counters[i] =
        IF Extrapolated(i)
        THEN Nearest(i, KernSample(i).value * KernSample(i).time_enabled,
                     KernSample(i).time_running)
        ELSE Zero

\* C13 (amended): after Stop returns on an instance with handles, whatever
\* the PerfCounters held before, every slot is zero unless its counter is
\* valid, was read in full and has nonzero time_running; such a slot is the
\* value of the slot's type nearest to value * time_enabled / time_running
\* or one of the two values of that type next to it.
C13_SlotsExtrapolatedOrZero ==
  (AfterStop /\ pc = "stopped") =>
    \A i \in Idx :
      LET b == KernSample(i)
          n == Nearest(i, b.value * b.time_enabled, b.time_running)
      IN IF Extrapolated(i)
         THEN \/ counters[i] = n
              \/ n # Zero /\ counters[i] \in {Above(n, Precision(i)),
                                              Below(n, Precision(i))}
         ELSE counters[i] = Zero

\* Stop overwrote a set of ones: one slot holds a quotient that is not the
\* nearest value, or the read of its counter failed and it is zero, and
\* the slots of the counters never opened are zero
C13_Witness ==
  /\ AfterStop
  /\ pc = "stopped"
  /\ before = Fill(1)
  /\ \E i \in valid_ :
       /\ Extrapolated(i)
       /\ KernSample(i).time_running < KernSample(i).time_enabled
       /\ counters[i] # Nearest(i, KernSample(i).value * KernSample(i).time_enabled,
                                KernSample(i).time_running)
  /\ \E i \in valid_ : ~ReadFull(i) /\ counters[i] = Zero
  /\ \E i \in Idx \ valid_ : counters[i] = Zero

\* The last system call of the last PMU call
LastOp == ops[Len(ops)]

\* C14: a Stop that never returns is inside the AGAIN loop (its last system
\* call is a read), and the read it keeps retrying keeps signalling the
\* transient condition, -1 with errno = EAGAIN.
C14_HangOnlyWhileTransient ==
  pc = "hung" =>
    /\ AfterStop
    /\ LastOp.op \in ReadOpNames
    /\ LastOp.op = "read_eagain"

\* C15: in Stop a read that returns -1 with an errno other than EAGAIN, or
\* fewer bytes than a Buf, is that counter's last read: Stop does not hang
\* on it, the counter's slot is zero, and every later valid counter is
\* still read.
C15_HardFailureNotRetried ==
  AfterStop =>
    \A k \in 2 .. Len(ops) :
      ops[k].op \in {"read_err", "read_short"} =>
        /\ pc = "stopped"
        /\ \A l \in (k + 1) .. Len(ops) : ops[l].idx # ops[k].idx
        /\ counters[ops[k].idx] = Zero
        /\ \A i \in valid_ : i > ops[k].idx => \E l \in (k + 1) .. Len(ops) : ops[l].idx = i

\* C16: whenever construction left a handle, the first stored handle is the
\* first one perf_event_open returned and the group's only leader; it is the
\* only handle opened with attr.disabled = 1, every other handle was opened
\* enabled with group_fd naming it, and every enable (Start) and disable
\* (Stop) is issued on it.
C16_FirstOpenedLeadsGroup ==
  Len(fds_) > 0 =>
    /\ Leaders = {fds_[1]}
    /\ \A f \in DOMAIN kern : kern[fds_[1]].idx <= kern[f].idx
    /\ \A f \in DOMAIN kern \ {fds_[1]} :
         kern[f].group_fd = fds_[1] /\ ~kern[f].disabled
    /\ \A k \in 1 .. Len(ops) :
         /\ (IsOpen(ops[k]) /\ ops[k].fd >= 0) =>
              /\ ops[k].dis <=> ops[k].fd = fds_[1]
              /\ ops[k].grp = IF ops[k].fd = fds_[1] THEN -1 ELSE fds_[1]
         /\ ops[k].op \in {"ioctl_enable", "ioctl_disable"} => ops[k].fd = fds_[1]
    /\ ret.op = "PMU" => kern[fds_[1]].disabled

\* Start has enabled a group whose leader is not ref_cycle
C16_Witness ==
  /\ ret.op = "Start"
  /\ ret.ok
  /\ 0 \notin valid_
  /\ Len(fds_) > 1
  /\ ops = << Op("ioctl_enable", fds_[1], -1, -1, FALSE) >>
  /\ Leaders = {fds_[1]}
  /\ \A j \in 2 .. Len(fds_) : kern[fds_[j]].group_fd = fds_[1]

\* C17: in Stop, a slot that received a nonzero value got it from a sample
\* with 0 < time_running <= time_enabled; a full sample with time_running >
\* time_enabled ends the process at that read with the slot still zero; and
\* that is the only way Stop aborts, so the assertion on the fraction never
\* fires for a sample that passed the first one with time_running # 0.
C17_ValuesFromConsistentSamples ==
  AfterStop =>
    /\ \A i \in Idx :
         (i <= LastOp.idx /\ counters[i] # Zero) =>
           /\ i \in DOMAIN samples
           /\ 0 < samples[i].time_running
           /\ samples[i].time_running <= samples[i].time_enabled
    /\ \A i \in DOMAIN samples :
         samples[i].time_running > samples[i].time_enabled =>
           /\ pc = "aborted"
           /\ LastOp.op = "read" /\ LastOp.idx = i
           /\ counters[i] = Zero
    /\ pc = "aborted" =>
         /\ LastOp.op = "read"
         /\ LastOp.idx \in DOMAIN samples
         /\ samples[LastOp.idx].time_running > samples[LastOp.idx].time_enabled

\* Stop aborted on a sample with time_running > time_enabled after it had
\* extrapolated an earlier, consistent one
C17_Witness ==
  /\ AfterStop
  /\ pc = "aborted"
  /\ LastOp.op = "read"
  /\ samples[LastOp.idx].time_running > samples[LastOp.idx].time_enabled
  /\ counters[LastOp.idx] = Zero
  /\ \E i \in DOMAIN samples :
       /\ i < LastOp.idx
       /\ 0 < samples[i].time_running
       /\ samples[i].time_running < samples[i].time_enabled
       /\ counters[i] # Zero

\* Number of set bits of the validity mask up to and including bit i
Rank(i) == Cardinality({j \in valid_ : j <= i})

\* C18: every read of Stop for canonical counter i goes to the handle opened
\* for counter i, which is the Rank(i)-th stored handle (Rank(i) never
\* exceeding the number of stored handles), also after an earlier counter's
\* read failed; a full sample carries the value of that counter's event.
C18_ReadsThroughOwnHandle ==
  AfterStop =>
    /\ \A k \in 2 .. Len(ops) :
         ops[k].op \in ReadOpNames =>
           /\ ops[k].idx \in valid_
           /\ Rank(ops[k].idx) \in 1 .. Len(fds_)
           /\ ops[k].fd = fds_[Rank(ops[k].idx)]
           /\ kern[ops[k].fd].idx = ops[k].idx
    /\ \A i \in DOMAIN samples : samples[i].value = kern[FdOf(i)].value

\* Stop returned after the reads of two counters failed, one of them after a
\* gap in the validity mask and before full reads of later counters
C18_Witness ==
  /\ AfterStop
  /\ pc = "stopped"
  /\ \E k \in 2 .. Len(ops) :
       /\ ops[k].op \in {"read_err", "read_short"}
       /\ \E j \in Idx \ valid_ : j < ops[k].idx
       /\ \E m \in 2 .. Len(ops) :
            ops[m].op = "read_err" /\ ops[m].idx # ops[k].idx
       /\ \E l \in (k + 1) .. Len(ops) :
            /\ ops[l].op = "read"
            /\ ops[l].idx > ops[k].idx
            /\ ops[l].idx \in 1 .. Len(fds_)
            /\ ops[l].fd = fds_[ops[l].idx]
            /\ samples[ops[l].idx].value > 0

====
